---------------------------- MODULE Spec2Model ----------------------------
(***************************************************************************)
(* A model of dashboard.py: the account operations on the users table and  *)
(* the Streamlit page router of one browser session.                       *)
(*                                                                         *)
(* One step of Spec is one script run (a "render pass") of the session:    *)
(* the on_click callback of the clicked button, if it has one, then the    *)
(* page branch of the script from top to bottom, with every account        *)
(* operation it calls.  AccountSpec calls the account operations one after *)
(* the other, with more arguments than the pages of Spec pass.  RaceSpec   *)
(* interleaves the database statements of two sessions' registrations.     *)
(* GuardSpec starts the script runs of Spec from the guarded pages, with   *)
(* the session's flags in any state.                                       *)
(*                                                                         *)
(* Texts whose characters matter (email, phone, password, password hash)   *)
(* are sequences of one-character strings; usernames and names are opaque  *)
(* strings.                                                                *)
(***************************************************************************)
EXTENDS Naturals, Sequences, FiniteSets, TLC

-----------------------------------------------------------------------------
(* Bounds of the model *)

\* how many bcrypt salts gensalt() can draw
NumSalts == 2

-----------------------------------------------------------------------------
(* Character classes of the two regular expressions *)

Digits == {"0", "1", "2", "3", "4", "5", "6", "7", "8", "9"}

Lower == {"a", "b", "c", "d", "e", "f", "g", "h", "i", "j", "k", "l", "m",
          "n", "o", "p", "q", "r", "s", "t", "u", "v", "w", "x", "y", "z"}

Upper == {"A", "B", "C", "D", "E", "F", "G", "H", "I", "J", "K", "L", "M",
          "N", "O", "P", "Q", "R", "S", "T", "U", "V", "W", "X", "Y", "Z"}

Alpha == Lower \cup Upper

\* [a-zA-Z0-9._%+-]
LocalChars == Alpha \cup Digits \cup {".", "_", "%", "+", "-"}

\* [a-zA-Z0-9.-]
DomainChars == Alpha \cup Digits \cup {".", "-"}

AllIn(s, from, to, class) == \A k \in from..to : s[k] \in class

\* ^[a-zA-Z0-9._%+-]+@[a-zA-Z0-9.-]+\.[a-zA-Z]{2,}$ : at is the "@", dot the
\* "." that starts the top-level domain
is_valid_email(email) ==
    \E at \in 1..Len(email) : \E dot \in 1..Len(email) :
        /\ email[at] = "@"
        /\ email[dot] = "."
        /\ at >= 2
        /\ AllIn(email, 1, at - 1, LocalChars)
        /\ dot >= at + 2
        /\ AllIn(email, at + 1, dot - 1, DomainChars)
        /\ Len(email) >= dot + 2
        /\ AllIn(email, dot + 1, Len(email), Alpha)

\* ^\+?[1-9]\d{9}$
is_valid_phone(phone) ==
    LET plus == IF Len(phone) >= 1 /\ phone[1] = "+" THEN 1 ELSE 0
    IN  /\ Len(phone) = plus + 10
        /\ phone[plus + 1] \in Digits \ {"0"}
        /\ AllIn(phone, plus + 2, plus + 10, Digits)

-----------------------------------------------------------------------------
(* bcrypt.  The digest is idealised as the symbolic term of the salt and   *)
(* the password (no collisions); the salt is part of the hash text, and    *)
(* checkpw reads it back from there.                                       *)

BcryptPrefix == <<"$", "2", "b", "$">>

SaltChars == <<"x", "y", "z", "w">>

\* bcrypt.gensalt() draws one of these
Salts == {<<SaltChars[i]>> : i \in 1..NumSalts}

\* bcrypt.hashpw(password, salt)
hashpw(password, salt) == BcryptPrefix \o salt \o <<"$">> \o password

\* the salt a hash text carries: the character after the prefix
SaltOf(stored_hash) == <<stored_hash[Len(BcryptPrefix) + 1]>>

\* hash_password(password), with the salt gensalt() drew
hash_password(password, salt) == hashpw(password, salt)

\* a checkpw that accepts every password for a stored hash
verify_password_AnyPassword(stored_hash, password) ==
    Len(stored_hash) > Len(BcryptPrefix) + 1

\* bcrypt.checkpw(password, stored_hash): hash the password again with the
\* salt of the stored text and compare.  (A stored text that is no bcrypt
\* hash makes checkpw raise; the program never stores one.)
verify_password(stored_hash, password) ==
    /\ Len(stored_hash) > Len(BcryptPrefix) + 1
    /\ SubSeq(stored_hash, 1, Len(BcryptPrefix)) = BcryptPrefix
    /\ hashpw(password, SaltOf(stored_hash)) = stored_hash

-----------------------------------------------------------------------------
(* What a visitor can type, and the admin pair of lines 18-23 *)

ADMIN_USERNAME == "RBI"

\* 'RBI123', hashed at line 23 when the environment gives no hash
DefaultAdminPassword == <<"R", "B", "I", "1", "2", "3">>

\* ADMIN_PASSWORD_HASH as line 23 computes it on a script run, with the salt
\* gensalt() drew on that run
ADMIN_PASSWORD_HASH(salt) == hashpw(DefaultAdminPassword, salt)

\* the usernames a visitor types: the admin's, and another
Usernames == {ADMIN_USERNAME, "bob"}

FirstNames == {"Ann"}

LastNames == {"Lee"}

Passwords == {DefaultAdminPassword, <<"p", "w">>}

\* two well-formed addresses and one whose top-level domain is too short
Emails == {<<"a", "@", "b", ".", "i", "o">>,
           <<"c", "@", "b", ".", "i", "o">>,
           <<"a", "@", "b", ".", "c">>}

\* two well-formed numbers (one with "+") and one that starts with 0
Phones == {<<"9", "8", "7", "6", "5", "4", "3", "2", "1", "0">>,
           <<"+", "1", "2", "3", "4", "5", "6", "7", "8", "9", "0">>,
           <<"0", "1", "2", "3", "4", "5", "6", "7", "8", "9">>}

ValidEmails == {e \in Emails : is_valid_email(e)}

ValidPhones == {ph \in Phones : is_valid_phone(ph)}

\* an input left blank
Blank == <<>>

\* Python's None
None == "None"

-----------------------------------------------------------------------------
(* The database.  A script run opens its connections one after the other;  *)
(* d[k] is what happens to the k-th of them: "ok", "no_conn" (connect      *)
(* raises, create_connection returns None) or "sql_error" (the statement   *)
(* or the commit raises MySQLError, nothing is committed).                 *)

DbOutcomes == {"ok", "no_conn", "sql_error"}

\* a script run opens at most this many connections (Register: two checks
\* and the insert; Yes, delete user: the list, the delete, the list again)
MaxConns == 3

DbScripts == [1..MaxConns -> DbOutcomes]

Log(w, msg) == [w EXCEPT !.log = @ \cup {msg}]

\* the outcome of the connection that the next create_connection() opens
NextConn(w, d) == d[w.conns + 1]

\* create_connection(): one more connection asked for; st.error if refused
create_connection(w, d) ==
    LET w1 == [w EXCEPT !.conns = @ + 1]
    IN  IF NextConn(w, d) = "no_conn"
        THEN Log(w1, "Database connection error")
        ELSE w1

\* the username column is the table's primary key: a second row with the
\* same username makes INSERT raise
DuplicateKey(db, username) == \E r \in db : r.username = username

\* a SELECT that leaves the phone number out
SelectExisting_NoPhone(db, username, email, phone) ==
    {r \in db : r.username = username \/ r.email = email}

\* SELECT * FROM users WHERE username = %s OR email = %s OR phone_number = %s
SelectExisting(db, username, email, phone) ==
    {r \in db : r.username = username \/ r.email = email \/ r.phone_number = phone}

\* a check that reports no match when the database fails
check_existing_user_FalseOnFailure(w, d, username, email, phone) ==
    [w |-> create_connection(w, d),
     ret |-> NextConn(w, d) = "ok"
             /\ Cardinality(SelectExisting(w.db, username, email, phone)) > 0]

check_existing_user(w, d, username, email, phone) ==
    LET c  == NextConn(w, d)
        w1 == create_connection(w, d)
    IN  IF c = "no_conn" THEN [w |-> w1, ret |-> TRUE]
        ELSE IF c = "sql_error"
        THEN [w |-> Log(w1, "Database Error"), ret |-> TRUE]
        ELSE [w |-> w1,
              ret |-> Cardinality(SelectExisting(w.db, username, email, phone)) > 0]

go_to_register(w) == [w EXCEPT !.ss.page = "register"]

go_to_login(w) == [w EXCEPT !.ss.page = "login"]

go_to_main(w) == [w EXCEPT !.ss.page = "main"]

go_to_edit_profile(w) == [w EXCEPT !.ss.page = "edit_profile"]

go_to_admin_panel(w) == [w EXCEPT !.ss.page = "admin_panel"]

go_to_admin_login(w) == [w EXCEPT !.ss.page = "admin_login"]

logout(w) ==
    go_to_login([w EXCEPT !.ss.authenticated = FALSE,
                          !.ss.username = None,
                          !.ss.admin_authenticated = FALSE,
                          !.ss.uploaded_file = None])

\* lines 76-84 of register_user: the two format checks and the existence
\* check; ret says whether register_user goes on to the INSERT
RegisterCheck(w, d, username, email, phone_number) ==
    IF ~is_valid_email(email)
    THEN [w |-> Log(w, "Invalid email format!"), ret |-> FALSE]
    ELSE IF ~is_valid_phone(phone_number)
    THEN [w |-> Log(w, "Invalid phone number format!"), ret |-> FALSE]
    ELSE LET chk == check_existing_user(w, d, username, email, phone_number)
         IN  IF chk.ret
             THEN [w |-> Log(chk.w, "Username, email, or phone number already in use!"),
                   ret |-> FALSE]
             ELSE [w |-> chk.w, ret |-> TRUE]

\* an INSERT into a table whose email column has a unique index
InsertUser_UniqueEmail(w, c, row) ==
    IF c = "sql_error" \/ DuplicateKey(w.db, row.username)
       \/ \E r \in w.db : r.email = row.email
    THEN Log(w, "Database Error")
    ELSE go_to_login(Log([w EXCEPT !.db = @ \cup {row}], "Registration successful!"))

\* the INSERT and the commit of lines 90-99 on an open connection, with
\* outcome c
InsertUser(w, c, row) ==
    IF c = "sql_error" \/ DuplicateKey(w.db, row.username)
    THEN Log(w, "Database Error")
    ELSE go_to_login(Log([w EXCEPT !.db = @ \cup {row}], "Registration successful!"))

\* lines 86-103 of register_user: the connection and the INSERT
RegisterInsert(w, d, salt, username, first_name, last_name, email, phone_number, password) ==
    LET c  == NextConn(w, d)
        w1 == create_connection(w, d)
    IN  IF c = "no_conn"
        THEN Log(w1, "Unable to connect to the database.")
        ELSE InsertUser(w1, c,
                 [username |-> username, first_name |-> first_name,
                  last_name |-> last_name, email |-> email,
                  phone_number |-> phone_number,
                  password |-> hash_password(password, salt)])

register_user(w, d, salt, username, first_name, last_name, email, phone_number, password) ==
    LET chk == RegisterCheck(w, d, username, email, phone_number)
    IN  IF chk.ret
        THEN RegisterInsert(chk.w, d, salt, username, first_name, last_name, email,
                            phone_number, password)
        ELSE chk.w

\* SELECT * FROM users WHERE username = %s and cursor.fetchone(): the row
\* read, if any (the primary key leaves at most one)
FetchUser(db, username) == {r \in db : r.username = username}

authenticate_user(w, d, username, password) ==
    LET c  == NextConn(w, d)
        w1 == create_connection(w, d)
    IN  IF c = "no_conn" THEN [w |-> w1, ret |-> FALSE]
        ELSE IF c = "sql_error"
        THEN [w |-> Log(w1, "Database Error"), ret |-> FALSE]
        ELSE [w |-> w1,
              ret |-> \E user \in FetchUser(w.db, username) :
                          verify_password(user.password, password)]

\* an is_admin that looks at the username only
is_admin_ByUsername(username, password, salt) == username = ADMIN_USERNAME

is_admin(username, password, salt) ==
    username = ADMIN_USERNAME /\ verify_password(ADMIN_PASSWORD_HASH(salt), password)

get_all_users(w, d) ==
    LET c  == NextConn(w, d)
        w1 == create_connection(w, d)
    IN  IF c = "no_conn" THEN [w |-> w1, ret |-> {}]
        ELSE IF c = "sql_error"
        THEN [w |-> Log(w1, "Database Error"), ret |-> {}]
        ELSE [w |-> w1, ret |-> w.db]

\* an UPDATE that sets the password column whatever the password
Updated_AlwaysHashed(r, username, first_name, last_name, email, phone_number, password, salt) ==
    IF r.username # username THEN r
    ELSE [r EXCEPT !.first_name = first_name, !.last_name = last_name,
                   !.email = email, !.phone_number = phone_number,
                   !.password = hash_password(password, salt)]

\* the row r after UPDATE users SET ... WHERE username = %s; a password that
\* is falsy (None, or the empty text of a blank field) takes the second UPDATE
Updated(r, username, first_name, last_name, email, phone_number, password, salt) ==
    IF r.username # username THEN r
    ELSE IF password # Blank
    THEN [r EXCEPT !.first_name = first_name, !.last_name = last_name,
                   !.email = email, !.phone_number = phone_number,
                   !.password = hash_password(password, salt)]
    ELSE [r EXCEPT !.first_name = first_name, !.last_name = last_name,
                   !.email = email, !.phone_number = phone_number]

update_user(w, d, salt, username, first_name, last_name, email, phone_number, password) ==
    LET c  == NextConn(w, d)
        w1 == create_connection(w, d)
    IN  IF c = "no_conn" THEN Log(w1, "Unable to connect to the database.")
        ELSE IF c = "sql_error" THEN Log(w1, "Database Error")
        ELSE Log([(IF password # Blank THEN Log(w1, "call hash_password") ELSE w1)
                     EXCEPT !.db = {Updated(r, username, first_name, last_name, email,
                                            phone_number, password, salt) : r \in @}],
                 "User updated successfully!")

\* a delete_user whose DELETE matches no row
delete_user_NoRow(w, d, username) ==
    IF NextConn(w, d) = "no_conn"
    THEN Log(create_connection(w, d), "Unable to connect to the database.")
    ELSE IF NextConn(w, d) = "sql_error"
    THEN Log(create_connection(w, d), "Database Error")
    ELSE Log(create_connection(w, d), "User deleted successfully!")

delete_user(w, d, username) ==
    LET c  == NextConn(w, d)
        w1 == create_connection(w, d)
    IN  IF c = "no_conn" THEN Log(w1, "Unable to connect to the database.")
        ELSE IF c = "sql_error" THEN Log(w1, "Database Error")
        ELSE Log([w1 EXCEPT !.db = {r \in @ : r.username # username}],
                 "User deleted successfully!")

-----------------------------------------------------------------------------
(* The pages.  w is the world of one script run: db the table, ss          *)
(* st.session_state, file_uploader and selectbox the values of those two   *)
(* widgets in the browser, ui the widgets the run has rendered so far,     *)
(* conns the connections it has asked for, log what it has shown and       *)
(* called, rerun whether st.experimental_rerun() has stopped it, first_ui   *)
(* the widgets that the run rendered before any such stop.                 *)
(* click is the button whose click started the run ("none" for any other   *)
(* rerun) and f the texts in the input fields.                             *)

Render(w, keys) == [w EXCEPT !.ui = @ \cup keys]

\* lines 271-278: what the Register button finds wrong with the fields, ""
\* if nothing
RegisterFieldsError(f) ==
    IF \/ f.username = "" \/ f.first_name = "" \/ f.last_name = ""
       \/ f.email = Blank \/ f.phone = Blank
       \/ f.password = Blank \/ f.confirm_password = Blank
    THEN "All fields are required."
    ELSE IF f.password # f.confirm_password THEN "Passwords do not match."
    ELSE IF ~is_valid_email(f.email) THEN "Invalid email address."
    ELSE IF ~is_valid_phone(f.phone) THEN "Invalid phone number."
    ELSE ""

\* lines 279-282, given what check_existing_user returned
RegisterSubmit(chk, f, d, salt) ==
    IF chk.ret
    THEN Log(chk.w, "Username, email, or phone number already in use.")
    ELSE register_user(Log(chk.w, "call register_user"), d, salt,
                       f.username, f.first_name, f.last_name,
                       f.email, f.phone, f.password)

\* lines 270-282: the Register button
RegisterButton(w, f, d, salt) ==
    IF RegisterFieldsError(f) # ""
    THEN Log(w, RegisterFieldsError(f))
    ELSE RegisterSubmit(check_existing_user(w, d, f.username, f.email, f.phone),
                        f, d, salt)

\* lines 259-289
RegisterPage(w, click, f, d, salt) ==
    IF click = "register_button"
    THEN RegisterButton(
             Render(w, {"register_button", "login_redirect", "admin_login_redirect"}),
             f, d, salt)
    ELSE IF click = "admin_login_redirect"
    THEN go_to_admin_login(
             Render(w, {"register_button", "login_redirect", "admin_login_redirect"}))
    ELSE Render(w, {"register_button", "login_redirect", "admin_login_redirect"})

\* lines 301-307, given what authenticate_user returned
LoginResult(a, username) ==
    IF a.ret
    THEN go_to_main(Log([a.w EXCEPT !.ss.authenticated = TRUE,
                                    !.ss.username = username],
                        "Welcome"))
    ELSE Log(a.w, "Invalid username or password")

\* lines 297-307: the Login button
LoginButton(w, f, d) ==
    IF f.username = "" \/ f.password = Blank
    THEN Log(w, "Username and password are required.")
    ELSE LoginResult(authenticate_user(Log(w, "call authenticate_user"), d,
                                       f.username, f.password),
                     f.username)

\* lines 291-313
LoginPage(w, click, f, d) ==
    IF click = "login_button"
    THEN LoginButton(
             Render(w, {"login_button", "register_redirect", "admin_login_redirect"}),
             f, d)
    ELSE IF click = "admin_login_redirect"
    THEN go_to_admin_login(
             Render(w, {"login_button", "register_redirect", "admin_login_redirect"}))
    ELSE Render(w, {"login_button", "register_redirect", "admin_login_redirect"})

\* lines 315-331
AdminLoginPage(w, click, f, admin_salt) ==
    LET w1 == Render(w, {"admin_login_button", "back_to_login"})
    IN  IF click = "admin_login_button"
        THEN IF f.username = "" \/ f.password = Blank
             THEN Log(w1, "Username and password are required.")
             ELSE IF is_admin(f.username, f.password, admin_salt)
             THEN go_to_admin_panel([w1 EXCEPT !.ss.admin_authenticated = TRUE])
             ELSE Log(w1, "Invalid admin username or password")
        ELSE w1

\* a guard that warns and leaves the page as it is
LoginGuard_NoRedirect(w) ==
    IF ~w.ss.authenticated
    THEN Log(w, "You need to be logged in to access this page.")
    ELSE w

\* lines 336-338 and 476-478: the guard of the main and edit profile pages
LoginGuard(w) ==
    IF ~w.ss.authenticated
    THEN go_to_login(Log(w, "You need to be logged in to access this page."))
    ELSE w

\* lines 350-359: the two buttons of the main page
MainButtons(w, click) ==
    IF click = "edit_profile_button" THEN go_to_edit_profile(w)
    ELSE IF click = "logout_button" THEN logout(w)
    ELSE w

\* lines 364 and 396-397: the uploader, and the file it holds
MainUpload(w) ==
    IF w.file_uploader # None
    THEN [w EXCEPT !.ss.uploaded_file = w.file_uploader]
    ELSE w

\* lines 335-473; of the dashboard only its title and what it does to the
\* session state are modelled
MainPage(w, click) ==
    MainUpload(Render(
        MainButtons(Log(Render(LoginGuard(w), {"edit_profile_button", "logout_button"}),
                        "Dashboard"),
                    click),
        {"file_uploader"}))

\* lines 491-506: the form of the edit profile page, on the connection of
\* line 484 with outcome c
EditProfileForm(w, c, click, f, d, salt) ==
    IF c = "no_conn" THEN w
    ELSE IF c = "sql_error" THEN Log(w, "Database Error")
    ELSE IF FetchUser(w.db, w.ss.username) = {} THEN Log(w, "USer not found.")
    ELSE IF click # "save_changes_button" THEN Render(w, {"save_changes_button"})
    ELSE IF f.password # Blank /\ f.password # f.confirm_password
    THEN Log(Render(w, {"save_changes_button"}), "Passwords do not match.")
    ELSE update_user(Log(Render(w, {"save_changes_button"}), "call update_user"), d, salt,
                     w.ss.username, f.first_name, f.last_name, f.email, f.phone,
                     f.password)

\* lines 480-512, after the guard
EditProfileBody(w, click, f, d, salt) ==
    Render(EditProfileForm(create_connection(Log(w, "Edit Profile"), d), NextConn(w, d),
                           click, f, d, salt),
           {"back_to_dashboard"})

\* lines 475-512
EditProfilePage(w, click, f, d, salt) ==
    EditProfileBody(LoginGuard(w), click, f, d, salt)

\* lines 515-517: the guard of the admin panel
AdminGuard(w) ==
    IF ~w.ss.admin_authenticated
    THEN go_to_admin_login(
             Log(w, "You need to be logged in as an admin to access this page."))
    ELSE w

\* the option the selectbox shows when it has no value yet: the username of
\* the first row of SELECT * FROM users, whose rows come in the order the
\* server chooses (order lists the usernames in that order)
FirstOption(names, order) ==
    CHOOSE n \in names :
        \A m \in names : \A i, j \in 1..Len(order) :
            order[i] = n /\ order[j] = m => i <= j

\* line 529: the selectbox keeps its value while that is one of its options
\* (in a session of Spec the options change only when the selected user is
\* deleted)
SelectedUser(w, names, order) ==
    IF w.selectbox \in names THEN w.selectbox ELSE FirstOption(names, order)

\* lines 540-544
UpdateButton(w, click, f, d, salt) ==
    IF click # "Update User" THEN w
    ELSE IF f.password # Blank /\ f.password # f.confirm_password
    THEN Log(w, "Passwords do not match.")
    ELSE update_user(Log(w, "call update_user"), d, salt, w.selectbox,
                     f.first_name, f.last_name, f.email, f.phone, f.password)

\* lines 548-549
DeleteButton(w, click) ==
    IF click = "Delete User" THEN [w EXCEPT !.ss.confirm_delete = "True"] ELSE w

\* lines 561-562
AdminLogoutButton(w, click) ==
    IF click = "admin_logout_button" THEN logout(w) ELSE w

\* lines 552-562: the confirmation of a deletion, and the Logout button
ConfirmDelete(w, click, d) ==
    IF w.ss.confirm_delete # "True"
    THEN AdminLogoutButton(Render(w, {"admin_logout_button"}), click)
    ELSE IF click = "Yes, delete user"
    THEN [delete_user(Log(Render(w, {"Yes, delete user"}), "call delete_user"), d,
                      w.selectbox)
             EXCEPT !.ss.confirm_delete = "False", !.rerun = TRUE]
    ELSE IF click = "No, cancel"
    THEN Render([w EXCEPT !.ss.confirm_delete = "False"],
                {"Yes, delete user", "No, cancel", "admin_logout_button"})
    ELSE AdminLogoutButton(
             Render(w, {"Yes, delete user", "No, cancel", "admin_logout_button"}), click)

\* lines 523-562: the panel, given the users that get_all_users returned
AdminPanelBody(w, listed, click, f, d, salt, order) ==
    IF listed = {} THEN w
    ELSE ConfirmDelete(
             DeleteButton(
                 UpdateButton(
                     [Render(w, {"select_user", "Update User", "Delete User"})
                         EXCEPT !.selectbox =
                             SelectedUser(w, {r.username : r \in listed}, order)],
                     click, f, d, salt),
                 click),
             click, d)

\* what get_all_users gives the panel
AdminPanelListed(g, click, f, d, salt, order) ==
    AdminPanelBody(g.w, g.ret, click, f, d, salt, order)

\* lines 514-562
AdminPanelPage(w, click, f, d, salt, order) ==
    AdminPanelListed(get_all_users(Log(AdminGuard(w), "call get_all_users"), d),
                     click, f, d, salt, order)

\* the page routing of lines 258-562: one run of the script
RunScript(w, click, f, d, salt, order) ==
    CASE w.ss.page = "register"     -> RegisterPage(w, click, f, d, salt)
      [] w.ss.page = "login"        -> LoginPage(w, click, f, d)
      [] w.ss.page = "admin_login"  -> AdminLoginPage(w, click, f, salt)
      [] w.ss.page = "main"         -> MainPage(w, click)
      [] w.ss.page = "edit_profile" -> EditProfilePage(w, click, f, d, salt)
      [] w.ss.page = "admin_panel"  -> AdminPanelPage(w, click, f, d, salt, order)

\* the callback of a button created with on_click, run before the script
OnClick(w, click) ==
    CASE click = "login_redirect"    -> go_to_login(w)
      [] click = "register_redirect" -> go_to_register(w)
      [] click = "back_to_login"     -> go_to_login(w)
      [] click = "back_to_dashboard" -> go_to_main(w)
      [] OTHER                       -> w

\* a widget the run did not render loses its value
DropWidgetState(w) ==
    [w EXCEPT !.file_uploader = IF "file_uploader" \in w.ui THEN @ ELSE None,
              !.selectbox = IF "select_user" \in w.ui THEN @ ELSE None]

\* st.experimental_rerun() stops the run r and the script runs again from
\* the top; first_ui keeps what r rendered
AfterRun(r, f, d, salt, order) ==
    DropWidgetState(
        [(IF r.rerun
          THEN RunScript([r EXCEPT !.ui = {}, !.rerun = FALSE], "none", f, d, salt, order)
          ELSE r) EXCEPT !.first_ui = r.ui])

\* what one interaction of the visitor sets off: the callback, the script
\* run and, after st.experimental_rerun(), the script run again
Pass(w, click, f, d, salt, order) ==
    AfterRun(RunScript(OnClick(w, click), click, f, d, salt, order), f, d, salt, order)

-----------------------------------------------------------------------------
(* State *)

VARIABLES
    users,           \* table users of database user_db: a set of rows
    session_state,   \* st.session_state of the session
    widgets,         \* the widgets the last script run rendered (the screen)
    file_uploader,   \* the file the sidebar's uploader holds, or None
    selectbox,       \* the user the admin panel's selectbox shows, or None
    last,            \* Spec, GuardSpec: the last script run: what started it,
                     \* the page it began on, what it showed and called, the
                     \* connections it asked for
    call,            \* AccountSpec: the last call of an account operation:
                     \* its arguments and what it returned
    deleted,         \* AccountSpec: the usernames that delete_user has deleted
                     \* and register_user has not inserted since
    reg,             \* RaceSpec: where each of two sessions is in the run
                     \* that its Register button started
    pending          \* Spec, GuardSpec: the user that was selected when Delete
                     \* User was clicked, until Yes, delete user, No, cancel
                     \* or a Logout button is clicked; None otherwise

vars == <<users, session_state, widgets, file_uploader, selectbox, last, call,
          deleted, reg, pending>>

Pages == {"register", "login", "admin_login", "main", "edit_profile", "admin_panel"}

\* the file a visitor can upload
Files == {"data.csv"}

\* 'confirm_delete' is no key of st.session_state until Delete User sets it;
\* from then on it is "True" or "False"
Unset == "unset"

\* lines 215-227: the session state of a visitor, here on page pg
Visitor(pg) ==
    [authenticated |-> FALSE, username |-> None, admin_authenticated |-> FALSE,
     page |-> pg, uploaded_file |-> None, confirm_delete |-> Unset]

\* what the script runs see of the state
World == [db |-> users, ss |-> session_state, file_uploader |-> file_uploader,
          selectbox |-> selectbox, ui |-> {}, conns |-> 0, log |-> {},
          rerun |-> FALSE, first_ui |-> {}]

\* a password field and its confirmation: left blank, typed twice alike, or
\* typed twice differently
PasswordEntries ==
    {<<Blank, DefaultAdminPassword>>}
        \cup {<<p, p>> : p \in Passwords}
        \cup {<<p, q>> \in Passwords \X {DefaultAdminPassword} : p # q}

\* the email and the phone number a visitor of Spec types: his own pair, or
\* one of the two ill-formed
Contacts ==
    {<<e, ph>> \in Emails \X Phones :
        \/ ~is_valid_email(e)
        \/ ~is_valid_phone(ph)
        \/ (e[1] = "a") = (ph[1] = "9")}

\* the input fields of the register page
RegisterForms ==
    {[username |-> u, first_name |-> fn, last_name |-> ln,
      email |-> c[1], phone |-> c[2],
      password |-> pc[1], confirm_password |-> pc[2]] :
        u \in Usernames \cup {""}, fn \in FirstNames, ln \in LastNames,
        c \in Contacts, pc \in PasswordEntries}

\* the two fields of the login and admin login pages
LoginForms ==
    [username : Usernames \cup {""}, password : Passwords \cup {Blank}]

\* the input fields of the edit profile page and of the admin panel, which
\* has no username field; the email and the phone typed there are well-formed
EditForms ==
    {[username |-> "", first_name |-> fn, last_name |-> ln,
      email |-> c[1], phone |-> c[2],
      password |-> pc[1], confirm_password |-> pc[2]] :
        fn \in FirstNames, ln \in LastNames,
        c \in Contacts \cap (ValidEmails \X ValidPhones), pc \in PasswordEntries}

\* a run that reads no input field
NoForm == [username |-> "", password |-> Blank]

\* the database up throughout a run
AllOk == [k \in 1..MaxConns |-> "ok"]

\* the database during a run that asks for at most n connections
ScriptsFor(n) == {d \in DbScripts : \A k \in 1..MaxConns : k > n => d[k] = "ok"}

\* the database during a run that stops at the first connection that fails
StopAtFailure == {d \in DbScripts : \A j, k \in 1..MaxConns :
                                       j < k /\ d[j] # "ok" => d[k] = "ok"}

\* the orders in which the server can return the rows of table users
RowOrders == {o \in [1..Cardinality(Usernames) -> Usernames] :
                 \A i, j \in 1..Cardinality(Usernames) : o[i] = o[j] => i = j}

\* inputs of runs that do not read them: the salt of a run that hashes
\* nothing, the row order of a run that lists no users
Salt0 == CHOOSE s \in Salts : TRUE

Order0 == CHOOSE o \in RowOrders : TRUE

\* the page a run started by a click on key begins on
PageOf(key) == OnClick(World, key).ss.page

\* the database is an input of the runs that ask for a connection, the row
\* order of the runs that list the users for a selectbox that has no value
\* or loses it
DbOf(pg) == IF pg \in {"edit_profile", "admin_panel"} THEN ScriptsFor(1) ELSE {AllOk}

OrdersOf(pg) ==
    IF pg = "admin_panel" /\ (selectbox = None \/ "Yes, delete user" \in widgets)
    THEN RowOrders ELSE {Order0}

Sessions == {"s1", "s2"}

\* no script run yet
NoRun == [op |-> "start", page |-> "register", username |-> "", password |-> Blank,
          log |-> {}, conns |-> 0]

\* no call yet
NoCall == [op |-> "none", username |-> "", email |-> Blank, phone |-> Blank,
           password |-> Blank, conns |-> 0, failed |-> FALSE, ret |-> None]

\* a session that has not clicked Register
Idle == [pc |-> "idle", form |-> NoForm, page |-> "register", before |-> FALSE,
         db |-> "ok"]

\* lines 215-227, and the first script run, which renders the register page
Init ==
    /\ users = {}
    /\ session_state = Visitor("register")
    /\ widgets = {"register_button", "login_redirect", "admin_login_redirect"}
    /\ file_uploader = None
    /\ selectbox = None
    /\ last = NoRun
    /\ call = NoCall
    /\ deleted = {}
    /\ reg = [s \in Sessions |-> Idle]
    /\ pending = None

-----------------------------------------------------------------------------
(* Spec: the script runs of one session *)

\* the buttons created with on_click
CallbackKeys == {"login_redirect", "register_redirect", "back_to_login",
                 "back_to_dashboard"}

\* the click that the run r acted on: a click on a button that r does not
\* render and that has no callback is a rerun like any other
Done(op, click, r) ==
    IF op = click /\ click \notin r.first_ui \cup CallbackKeys THEN "rerun" ELSE op

\* whether the run r accepted a login: it turned on authenticated or
\* admin_authenticated, or ran lines 302-305
Accepted(w0, r) ==
    \/ r.ss.authenticated /\ ~w0.ss.authenticated
    \/ r.ss.admin_authenticated /\ ~w0.ss.admin_authenticated
    \/ "Welcome" \in r.log

\* the user whose deletion waits for its confirmation after a run r that
\* acted on done: lines 548-549 ask for the confirmation of the user selected
\* in that run, lines 554-559 and logout() end the wait
Pending(done, r) ==
    IF done = "Delete User" THEN r.selectbox
    ELSE IF done \in {"Yes, delete user", "No, cancel", "logout_button",
                      "admin_logout_button"}
    THEN None
    ELSE pending

\* the state after the run r of world w0.  last keeps what was done, the
\* page the script began on, the user selected in the admin panel when
\* Update User or Yes, delete user was clicked, and the username and the
\* password typed into a login form if the run accepted them
Commit(op, w0, click, f, r) ==
    /\ users' = r.db
    /\ session_state' = r.ss
    /\ widgets' = r.ui
    /\ file_uploader' = r.file_uploader
    /\ selectbox' = r.selectbox
    /\ last' = [op |-> Done(op, click, r),
                page |-> OnClick(w0, click).ss.page,
                username |-> IF Done(op, click, r) \in {"Update User", "Yes, delete user"}
                             THEN w0.selectbox
                             ELSE IF Accepted(w0, r) THEN f.username ELSE "",
                password |-> IF Accepted(w0, r) THEN f.password ELSE Blank,
                log |-> r.log, conns |-> r.conns]
    /\ pending' = Pending(Done(op, click, r), r)
    /\ UNCHANGED <<call, deleted, reg>>

\* the visitor does op (clicks a button on the screen, or changes a widget's
\* value, which gives world w0) and the session runs the script
Interact(op, w0, click, f, d, salt, order) ==
    Commit(op, w0, click, f, Pass(w0, click, f, d, salt, order))

\* a click on a button whose run reads no input field
ClickPlain(key) ==
    \E d \in DbOf(PageOf(key)) : \E order \in OrdersOf(PageOf(key)) :
        Interact(key, World, key, NoForm, d, Salt0, order)

\* the Register button reaches the database only with a form that passes
\* the checks of lines 271-278
RegisterReachesDb(f) == RegisterFieldsError(f) = ""

ClickRegister ==
    /\ "register_button" \in widgets
    /\ \E f \in RegisterForms :
       \E d \in IF PageOf("register_button") = "register" /\ RegisterReachesDb(f)
                THEN StopAtFailure ELSE DbOf(PageOf("register_button")) :
       \E order \in OrdersOf(PageOf("register_button")) :
           Interact("register_button", World, "register_button", f, d, Salt0, order)

ClickLoginRedirect ==
    /\ "login_redirect" \in widgets
    /\ ClickPlain("login_redirect")

ClickAdminLoginRedirect ==
    /\ "admin_login_redirect" \in widgets
    /\ ClickPlain("admin_login_redirect")

ClickLogin ==
    /\ "login_button" \in widgets
    /\ \E f \in LoginForms :
       \E d \in IF PageOf("login_button") = "login" THEN ScriptsFor(1)
                ELSE DbOf(PageOf("login_button")) :
       \E order \in OrdersOf(PageOf("login_button")) :
           Interact("login_button", World, "login_button", f, d, Salt0, order)

ClickRegisterRedirect ==
    /\ "register_redirect" \in widgets
    /\ ClickPlain("register_redirect")

\* line 23 hashes the admin password with a fresh salt on every run
ClickAdminLogin ==
    /\ "admin_login_button" \in widgets
    /\ \E f \in LoginForms : \E salt \in Salts :
       \E d \in DbOf(PageOf("admin_login_button")) :
       \E order \in OrdersOf(PageOf("admin_login_button")) :
           Interact("admin_login_button", World, "admin_login_button", f, d, salt, order)

ClickBackToLogin ==
    /\ "back_to_login" \in widgets
    /\ ClickPlain("back_to_login")

ClickEditProfile ==
    /\ "edit_profile_button" \in widgets
    /\ ClickPlain("edit_profile_button")

ClickLogout ==
    /\ "logout_button" \in widgets
    /\ ClickPlain("logout_button")

ClickSaveChanges ==
    /\ "save_changes_button" \in widgets
    /\ \E f \in EditForms : \E d \in ScriptsFor(2) \cap StopAtFailure :
       \E order \in OrdersOf(PageOf("save_changes_button")) :
           Interact("save_changes_button", World, "save_changes_button", f, d, Salt0,
                    order)

ClickBackToDashboard ==
    /\ "back_to_dashboard" \in widgets
    /\ ClickPlain("back_to_dashboard")

ClickUpdateUser ==
    /\ "Update User" \in widgets
    /\ \E f \in EditForms : \E d \in ScriptsFor(2) \cap StopAtFailure :
       \E order \in OrdersOf(PageOf("Update User")) :
           Interact("Update User", World, "Update User", f, d, Salt0, order)

ClickDeleteUser ==
    /\ "Delete User" \in widgets
    /\ ClickPlain("Delete User")

\* the run lists the users, deletes, and runs again from the top
ClickYesDelete ==
    /\ "Yes, delete user" \in widgets
    /\ \E d \in {e \in DbScripts : e[1] # "ok" => e = [AllOk EXCEPT ![1] = e[1]]} :
       \E order \in OrdersOf(PageOf("Yes, delete user")) :
           Interact("Yes, delete user", World, "Yes, delete user", NoForm, d, Salt0,
                    order)

ClickNoCancel ==
    /\ "No, cancel" \in widgets
    /\ ClickPlain("No, cancel")

ClickAdminLogout ==
    /\ "admin_logout_button" \in widgets
    /\ ClickPlain("admin_logout_button")

\* the visitor picks another user in the selectbox of the admin panel
SelectUser ==
    /\ "select_user" \in widgets
    /\ \E u \in {r.username : r \in users} \ {selectbox} :
       \E d \in DbOf(PageOf("none")) : \E order \in OrdersOf(PageOf("none")) :
           Interact("select_user", [World EXCEPT !.selectbox = u], "none", NoForm, d,
                    Salt0, order)

\* the visitor puts a file into the uploader, or takes it out
ChangeUpload ==
    /\ "file_uploader" \in widgets
    /\ \E file \in (Files \cup {None}) \ {file_uploader} :
       \E d \in DbOf(PageOf("none")) : \E order \in OrdersOf(PageOf("none")) :
           Interact("file_uploader", [World EXCEPT !.file_uploader = file], "none",
                    NoForm, d, Salt0, order)

\* any other rerun: a text typed into a field, the browser's Rerun command
Rerun ==
    \E d \in DbOf(PageOf("none")) : \E order \in OrdersOf(PageOf("none")) :
        Interact("rerun", World, "none", NoForm, d, Salt0, order)

Next ==
    \/ ClickRegister
    \/ ClickLoginRedirect
    \/ ClickAdminLoginRedirect
    \/ ClickLogin
    \/ ClickRegisterRedirect
    \/ ClickAdminLogin
    \/ ClickBackToLogin
    \/ ClickEditProfile
    \/ ClickLogout
    \/ ClickSaveChanges
    \/ ClickBackToDashboard
    \/ ClickUpdateUser
    \/ ClickDeleteUser
    \/ ClickYesDelete
    \/ ClickNoCancel
    \/ ClickAdminLogout
    \/ SelectUser
    \/ ChangeUpload
    \/ Rerun

\* one session and the table; gensalt() draws the same salt in every run
\* but those of the admin login page
Spec == Init /\ [][Next]_vars

-----------------------------------------------------------------------------
(* AccountSpec: the account operations, called one after the other.  Each  *)
(* step is one call, from its first statement to its return, made by a     *)
(* session that is on the page that calls the operation.                   *)

\* the emails and phone numbers passed to the operations: two well-formed
\* pairs, a third with the email of the first and the phone of the second,
\* and the ill-formed
AccountContacts ==
    {c \in Emails \X Phones :
        \/ c \in Contacts
        \/ c[1][1] = "a" /\ c[2][1] = "+"}

ValidContacts == AccountContacts \cap (ValidEmails \X ValidPhones)

\* the session of the administrator on the admin panel
Admin == [Visitor("admin_panel") EXCEPT !.admin_authenticated = TRUE]

\* the world of a call by the session ss
Caller(ss) == [World EXCEPT !.ss = ss]

\* the arguments of a call
Args(username, email, phone, password) ==
    [username |-> username, email |-> email, phone |-> phone, password |-> password]

\* whether a connection that the call r asked for failed
Failed(r, d) == \E k \in 1..r.conns : d[k] # "ok"

\* the state after the call op(a) that ended in world r and returned ret
Returned(op, a, d, r, ret) ==
    /\ users' = r.db
    /\ session_state' = r.ss
    /\ call' = [op |-> op, username |-> a.username, email |-> a.email,
                phone |-> a.phone, password |-> a.password, conns |-> r.conns,
                failed |-> Failed(r, d), ret |-> ret]
    /\ deleted' = IF "User deleted successfully!" \in r.log
                  THEN deleted \cup {a.username}
                  ELSE IF "Registration successful!" \in r.log
                  THEN deleted \ {a.username}
                  ELSE deleted

\* what a function returned, with the world it left
ReturnedValue(op, a, d, res) == Returned(op, a, d, res.w, res.ret)

\* the passwords and the salts of a call that hashes only when the database
\* is up
HashedWhenUp(choices, d) == IF d = AllOk THEN choices ELSE {CHOOSE x \in choices : TRUE}

\* register_user asks for no connection when a format is wrong
CallRegisterUser ==
    \E u \in Usernames : \E fn \in FirstNames : \E ln \in LastNames :
    \E c \in AccountContacts :
    \E d \in IF c \in ValidContacts THEN ScriptsFor(2) \cap StopAtFailure ELSE {AllOk} :
    \E p \in HashedWhenUp(Passwords, d) : \E salt \in HashedWhenUp(Salts, d) :
        /\ Returned("register_user", Args(u, c[1], c[2], Blank), d,
                    register_user(Caller(Visitor("register")), d, salt,
                                  u, fn, ln, c[1], c[2], p),
                    None)
        /\ UNCHANGED <<widgets, file_uploader, selectbox, last, reg, pending>>

CallCheckExistingUser ==
    \E u \in Usernames : \E c \in ValidContacts : \E d \in ScriptsFor(1) :
        /\ ReturnedValue("check_existing_user", Args(u, c[1], c[2], Blank), d,
                         check_existing_user(Caller(Visitor("register")), d,
                                             u, c[1], c[2]))
        /\ UNCHANGED <<widgets, file_uploader, selectbox, last, reg, pending>>

CallAuthenticateUser ==
    \E u \in Usernames : \E p \in Passwords : \E d \in ScriptsFor(1) :
        /\ ReturnedValue("authenticate_user", Args(u, Blank, Blank, p), d,
                         authenticate_user(Caller(Visitor("login")), d, u, p))
        /\ UNCHANGED <<widgets, file_uploader, selectbox, last, reg, pending>>

\* the Login button of a visitor's login page
SubmitLogin ==
    \E f \in LoginForms :
    \E d \in IF f.username = "" \/ f.password = Blank THEN {AllOk} ELSE ScriptsFor(1) :
        /\ Returned("login_button", Args(f.username, Blank, Blank, f.password), d,
                    LoginButton(Caller(Visitor("login")), f, d),
                    None)
        /\ UNCHANGED <<widgets, file_uploader, selectbox, last, reg, pending>>

CallGetAllUsers ==
    \E d \in ScriptsFor(1) :
        /\ ReturnedValue("get_all_users", Args("", Blank, Blank, Blank), d,
                         get_all_users(Caller(Admin), d))
        /\ UNCHANGED <<widgets, file_uploader, selectbox, last, reg, pending>>

\* update_user as the edit profile page and the admin panel call it: with
\* the texts of the fields, the password field blank or not
CallUpdateUser ==
    \E u \in Usernames : \E fn \in FirstNames : \E ln \in LastNames :
    \E c \in ValidContacts : \E p \in Passwords \cup {Blank} : \E d \in ScriptsFor(1) :
    \E salt \in IF p = Blank THEN {Salt0} ELSE HashedWhenUp(Salts, d) :
        /\ Returned("update_user", Args(u, Blank, Blank, p), d,
                    update_user(Caller(Admin), d, salt, u, fn, ln, c[1], c[2], p),
                    None)
        /\ UNCHANGED <<widgets, file_uploader, selectbox, last, reg, pending>>

CallDeleteUser ==
    \E u \in Usernames : \E d \in ScriptsFor(1) :
        /\ Returned("delete_user", Args(u, Blank, Blank, Blank), d,
                    delete_user(Caller(Admin), d, u),
                    None)
        /\ UNCHANGED <<widgets, file_uploader, selectbox, last, reg, pending>>

AccountNext ==
    \/ CallRegisterUser
    \/ CallCheckExistingUser
    \/ CallAuthenticateUser
    \/ SubmitLogin
    \/ CallGetAllUsers
    \/ CallUpdateUser
    \/ CallDeleteUser

AccountSpec == Init /\ [][AccountNext]_vars

-----------------------------------------------------------------------------
(* RaceSpec: two sessions click Register, and the statements of their two  *)
(* script runs that reach the database interleave: the check of line 279,  *)
(* the check of line 82, the INSERT of lines 86-99.                        *)

\* what the two visitors type: all fields filled and well-formed
RaceForms ==
    {f \in RegisterForms :
        /\ RegisterFieldsError(f) = ""
        /\ f.password = DefaultAdminPassword
        /\ <<f.email, f.phone>> \in ValidContacts}

\* the database during a statement on a connection with outcome c
One(c) == [AllOk EXCEPT ![1] = c]

\* session s moves to pc
Goto(s, pc) == reg' = [reg EXCEPT ![s].pc = pc]

\* lines 270-278: the click, and the checks of the fields
RaceClick(s) ==
    /\ reg[s].pc = "idle"
    /\ \E f \in RaceForms :
           reg' = [reg EXCEPT ![s].pc = IF RegisterFieldsError(f) = ""
                                        THEN "check_279" ELSE "rejected",
                              ![s].form = f]
    /\ UNCHANGED <<users, session_state, widgets, file_uploader, selectbox, last,
                   call, deleted, pending>>

\* line 279
RaceCheck279(s) ==
    /\ reg[s].pc = "check_279"
    /\ \E c \in DbOutcomes :
           Goto(s, IF check_existing_user(Caller(Visitor("register")), One(c),
                                          reg[s].form.username, reg[s].form.email,
                                          reg[s].form.phone).ret
                   THEN "rejected" ELSE "check_82")
    /\ UNCHANGED <<users, session_state, widgets, file_uploader, selectbox, last,
                   call, deleted, pending>>

\* lines 76-84; before says whether no INSERT of the other session has been
\* committed by now
RaceCheck82(s) ==
    /\ reg[s].pc = "check_82"
    /\ \E c \in DbOutcomes :
           reg' = [reg EXCEPT
                     ![s].pc = IF RegisterCheck(Caller(Visitor("register")), One(c),
                                                reg[s].form.username, reg[s].form.email,
                                                reg[s].form.phone).ret
                               THEN "insert" ELSE "rejected",
                     ![s].before = \A t \in Sessions : reg[t].pc # "done"]
    /\ UNCHANGED <<users, session_state, widgets, file_uploader, selectbox, last,
                   call, deleted, pending>>

\* the session after lines 86-103 left world r on a connection with outcome c
RaceInserted(s, c, r) ==
    /\ users' = r.db
    /\ reg' = [reg EXCEPT ![s].pc = IF "Registration successful!" \in r.log
                                    THEN "done" ELSE "failed",
                          ![s].page = r.ss.page,
                          ![s].db = c]

\* lines 86-103
RaceInsert(s) ==
    /\ reg[s].pc = "insert"
    /\ \E c \in DbOutcomes : \E salt \in Salts :
           RaceInserted(s, c,
               RegisterInsert(Caller(Visitor("register")), One(c), salt,
                              reg[s].form.username, reg[s].form.first_name,
                              reg[s].form.last_name, reg[s].form.email,
                              reg[s].form.phone, reg[s].form.password))
    /\ UNCHANGED <<session_state, widgets, file_uploader, selectbox, last, call,
                   deleted, pending>>

RaceNext ==
    \E s \in Sessions :
        \/ RaceClick(s)
        \/ RaceCheck279(s)
        \/ RaceCheck82(s)
        \/ RaceInsert(s)

RaceSpec == Init /\ [][RaceNext]_vars

-----------------------------------------------------------------------------
(* GuardSpec: the script runs of one session that is on a guarded page,    *)
(* with its two flags in any state.                                        *)

GuardedPages == {"main", "edit_profile", "admin_panel"}

\* an account in the table
BobRow ==
    [username |-> "bob", first_name |-> "Ann", last_name |-> "Lee",
     email |-> <<"c", "@", "b", ".", "i", "o">>,
     phone_number |-> <<"+", "1", "2", "3", "4", "5", "6", "7", "8", "9", "0">>,
     password |-> hash_password(<<"p", "w">>, Salt0)]

\* the session on the guarded page pg
GuardedSession(pg, a, ad, cd) ==
    [Visitor(pg) EXCEPT !.authenticated = a,
                        !.username = IF a THEN "bob" ELSE None,
                        !.admin_authenticated = ad,
                        !.confirm_delete = cd]

\* the screen of the session ss over the table db: what a run of its page
\* renders
Screen(db, ss) ==
    DropWidgetState(
        RunScript([db |-> db, ss |-> ss, file_uploader |-> None, selectbox |-> None,
                   ui |-> {}, conns |-> 0, log |-> {}, rerun |-> FALSE,
                   first_ui |-> {}],
                  "none", NoForm, AllOk, Salt0, Order0))

GuardInit ==
    \E pg \in GuardedPages : \E a \in BOOLEAN : \E ad \in BOOLEAN :
    \E cd \in {Unset, "True"} : \E db \in {{}, {BobRow}} :
        /\ users = db
        /\ session_state = GuardedSession(pg, a, ad, cd)
        /\ widgets = Screen(db, GuardedSession(pg, a, ad, cd)).ui
        /\ file_uploader = None
        /\ selectbox = Screen(db, GuardedSession(pg, a, ad, cd)).selectbox
        /\ last = NoRun
        /\ call = NoCall
        /\ deleted = {}
        /\ reg = [s \in Sessions |-> Idle]
        /\ pending = None

GuardSpec == GuardInit /\ [][Next]_vars

-----------------------------------------------------------------------------
(* The claims *)

\* C1 (Spec): in every table reachable by register_user, update_user and
\* delete_user calls that do not overlap, no two accounts share a username,
\* an email or a phone number.
C1_NoSharedField ==
    \A r1, r2 \in users :
        r1 # r2 => /\ r1.username # r2.username
                   /\ r1.email # r2.email
                   /\ r1.phone_number # r2.phone_number

\* the rows in the table for what session s typed
RaceRows(s) ==
    {r \in users : /\ r.username = reg[s].form.username
                   /\ r.email = reg[s].form.email
                   /\ r.phone_number = reg[s].form.phone}

\* both checks of session s returned False before any INSERT was committed,
\* and its own INSERT has run on a connection that works
RacedToInsert(s) ==
    /\ reg[s].pc \in {"done", "failed"}
    /\ reg[s].before
    /\ reg[s].db = "ok"

\* C2 (RaceSpec): when two sessions register different usernames and the
\* checks of both return False before either INSERT is committed, both
\* INSERTs succeed: both rows are in the table, and if the two typed the
\* same email the table holds two accounts with that email.
C2_BothInsertsSucceed ==
    \A s, t \in Sessions :
        (/\ s # t
         /\ RacedToInsert(s)
         /\ RacedToInsert(t)
         /\ reg[s].form.username # reg[t].form.username)
        => /\ reg[s].pc = "done"
           /\ reg[t].pc = "done"
           /\ RaceRows(s) # {}
           /\ RaceRows(t) # {}
           /\ reg[s].form.email = reg[t].form.email
                  => Cardinality({r \in users : r.email = reg[s].form.email}) = 2

\* C2: the race has happened with one email for both
C2_SameEmailTwice ==
    \E s, t \in Sessions :
        /\ s # t
        /\ RacedToInsert(s)
        /\ RacedToInsert(t)
        /\ reg[s].pc = "done"
        /\ reg[t].pc = "done"
        /\ reg[s].form.username # reg[t].form.username
        /\ reg[s].form.email = reg[t].form.email
        /\ Cardinality({r \in users : r.email = reg[s].form.email}) = 2

\* the accounts of db named u whose stored hash was produced from p
HashedFrom(db, u, p) ==
    {r \in db : r.username = u /\ \E salt \in Salts : r.password = hashpw(p, salt)}

\* C3 (AccountSpec): with the database reachable, authenticate_user(u, p)
\* returns True if and only if the table holds an account named u whose
\* stored hash was produced from p; it returns False for a username that is
\* not in the table; it never changes the table.
C3_TrueIffHashMatches ==
    [][call'.op = "authenticate_user" =>
          /\ users' = users
          /\ ~call'.failed =>
                /\ call'.ret = (HashedFrom(users, call'.username, call'.password) # {})
                /\ (\A r \in users : r.username # call'.username) => call'.ret = FALSE
      ]_vars

\* C3: authenticate_user has accepted a password, of one of two accounts
C3_Accepted ==
    /\ call.op = "authenticate_user"
    /\ ~call.failed
    /\ call.ret = TRUE
    /\ Cardinality(users) = 2

\* the stored password of the account of db named u
StoredPassword(db, u) == {r.password : r \in {x \in db : x.username = u}}

\* what authenticate_user(u, p) returns over db with the database up
Accepts(db, u, p) == authenticate_user([World EXCEPT !.db = db], AllOk, u, p).ret

\* C4 (AccountSpec): update_user with a blank password leaves the stored
\* hash of the account unchanged; with a password it stores a hash of that
\* password made with a salt drawn then, so authenticate_user then accepts
\* that password and rejects every other (the old one among them), and what
\* is stored is not the password itself.
C4_PasswordUpdate ==
    [][(call'.op = "update_user" /\ ~call'.failed) =>
          \A r \in users : r.username = call'.username =>
              IF call'.password = Blank
              THEN StoredPassword(users', r.username) = {r.password}
              ELSE /\ \E salt \in Salts :
                          StoredPassword(users', r.username)
                              = {hashpw(call'.password, salt)}
                   /\ Accepts(users', r.username, call'.password)
                   /\ \A q \in Passwords \ {call'.password} :
                          ~Accepts(users', r.username, q)
                   /\ call'.password \notin StoredPassword(users', r.username)
      ]_vars

\* C4: update_user has set a password of an account
C4_PasswordSet ==
    /\ call.op = "update_user"
    /\ ~call.failed
    /\ call.password # Blank
    /\ HashedFrom(users, call.username, call.password) # {}

\* C5 (AccountSpec): register_user inserts a row, the one of its arguments,
\* only when the email and the phone are well-formed and no account has the
\* username, the email or the phone; with an ill-formed one it returns
\* before it asks for a connection; with a match it leaves the table as it
\* is and the page 'register'; the page becomes 'login' only by an insert.
C5_InsertsOnlyWhenFree ==
    [][call'.op = "register_user" =>
          LET valid == is_valid_email(call'.email) /\ is_valid_phone(call'.phone)
              match == \E r \in users : \/ r.username = call'.username
                                        \/ r.email = call'.email
                                        \/ r.phone_number = call'.phone
          IN  /\ users' # users =>
                    /\ valid
                    /\ ~match
                    /\ users \subseteq users'
                    /\ Cardinality(users' \ users) = 1
                    /\ \A r \in users' \ users : /\ r.username = call'.username
                                                 /\ r.email = call'.email
                                                 /\ r.phone_number = call'.phone
              /\ ~valid => call'.conns = 0 /\ users' = users
              /\ match => users' = users /\ session_state'.page = "register"
              /\ session_state'.page # "register" =>
                    session_state'.page = "login" /\ users' # users
      ]_vars

\* C5: register_user has inserted a second account
C5_SecondAccountInserted ==
    /\ call.op = "register_user"
    /\ session_state.page = "login"
    /\ Cardinality(users) = 2
    /\ \E r \in users : r.username = call.username /\ r.email = call.email

\* C6 (AccountSpec): after delete_user(u) has succeeded, authenticate_user(u,
\* p) returns False for every p until register_user inserts u again; and
\* the delete leaves the rows of the other usernames as they are.
C6_DeletedIsRejected ==
    /\ [](call.op = "authenticate_user" /\ call.username \in deleted
             => call.ret = FALSE)
    /\ [][(call'.op = "delete_user" /\ ~call'.failed) =>
             /\ \A r \in users' : r.username # call'.username
             /\ {r \in users' : r.username # call'.username}
                    = {r \in users : r.username # call'.username}
         ]_vars

\* C6: authenticate_user has been called for a deleted username, with the
\* database up and another account left in the table
C6_RejectedAfterDelete ==
    /\ call.op = "authenticate_user"
    /\ call.username \in deleted
    /\ ~call.failed
    /\ users # {}

\* C7 (Spec): is_admin is True only for the admin username with the admin
\* password, and admin_authenticated becomes True only in a run of the admin
\* login page whose form holds that pair.
C7_OnlyTheAdminPair ==
    /\ [](\A u \in Usernames \cup {""} : \A p \in Passwords \cup {Blank} :
          \A salt \in Salts :
              is_admin(u, p, salt) => u = ADMIN_USERNAME /\ p = DefaultAdminPassword)
    /\ [][(session_state'.admin_authenticated /\ ~session_state.admin_authenticated) =>
             /\ last'.op = "admin_login_button"
             /\ last'.page = "admin_login"
             /\ last'.username = ADMIN_USERNAME
             /\ last'.password = DefaultAdminPassword
         ]_vars

\* C7: the admin has logged in while the table holds an account with the
\* admin's username and another password
C7_AdminBesideNamesake ==
    /\ last.op = "admin_login_button"
    /\ session_state.admin_authenticated
    /\ \E r \in users : /\ r.username = ADMIN_USERNAME
                        /\ ~verify_password(r.password, DefaultAdminPassword)

\* C8 (Spec): after a run in which the Logout button of the main page or of
\* the admin panel called logout(), the page is 'login', authenticated and
\* admin_authenticated are False, username and uploaded_file are None.
C8_LogoutClearsSession ==
    last.op \in {"logout_button", "admin_logout_button"} =>
        /\ session_state.page = "login"
        /\ ~session_state.authenticated
        /\ ~session_state.admin_authenticated
        /\ session_state.username = None
        /\ session_state.uploaded_file = None

\* the session that calls op in AccountSpec
CallerState(op) ==
    IF op \in {"register_user", "check_existing_user"} THEN Visitor("register")
    ELSE IF op \in {"authenticate_user", "login_button"} THEN Visitor("login")
    ELSE Admin

\* C9 (AccountSpec): a call in which a connection is refused or a statement
\* raises changes neither the table nor the session of its caller (its
\* flags, its page); check_existing_user then returns True, authenticate_user
\* False, get_all_users the empty list.
C9_FailureChangesNothing ==
    [][call'.failed =>
          /\ users' = users
          /\ session_state' = CallerState(call'.op)
          /\ call'.op = "check_existing_user" => call'.ret = TRUE
          /\ call'.op = "authenticate_user" => call'.ret = FALSE
          /\ call'.op = "get_all_users" => call'.ret = {}
      ]_vars

\* C9: register_user has passed its check and found no connection for the
\* INSERT, with an account in the table
C9_InsertRefused ==
    /\ call.op = "register_user"
    /\ call.failed
    /\ call.conns = 2
    /\ users # {}

\* C10 (GuardSpec): a run that begins on main or edit_profile with
\* authenticated False, or on admin_panel with admin_authenticated False,
\* warns and sets the page to 'login' (to 'admin_login'), and goes on with
\* the page: main renders the dashboard and its buttons, edit_profile asks
\* for its connection, admin_panel fetches the users and processes Update
\* User and Delete User.
C10_GuardFallsThrough ==
    [][/\ (last'.page \in {"main", "edit_profile"} /\ ~session_state.authenticated) =>
              "You need to be logged in to access this page." \in last'.log
       /\ (last'.page = "main" /\ ~session_state.authenticated) =>
              /\ "Dashboard" \in last'.log
              /\ {"edit_profile_button", "logout_button", "file_uploader"}
                     \subseteq widgets'
              /\ session_state'.page = IF last'.op = "edit_profile_button"
                                       THEN "edit_profile" ELSE "login"
       /\ (last'.page = "edit_profile" /\ ~session_state.authenticated) =>
              /\ "Edit Profile" \in last'.log
              /\ last'.conns >= 1
              /\ "back_to_dashboard" \in widgets'
              /\ session_state'.page = "login"
       /\ (last'.page = "admin_panel" /\ ~session_state.admin_authenticated) =>
              /\ "You need to be logged in as an admin to access this page."
                     \in last'.log
              /\ "call get_all_users" \in last'.log
              /\ session_state'.page = IF last'.op = "admin_logout_button"
                                       THEN "login" ELSE "admin_login"
              /\ last'.op = "Update User" =>
                     \/ "call update_user" \in last'.log
                     \/ "Passwords do not match." \in last'.log
              /\ last'.op = "Delete User" => session_state'.confirm_delete = "True"
      ]_vars

\* C10: a run that began on admin_panel with admin_authenticated False has
\* updated a user
C10_UpdatedWithoutAdmin ==
    /\ last.page = "admin_panel"
    /\ last.op = "Update User"
    /\ "You need to be logged in as an admin to access this page." \in last.log
    /\ "User updated successfully!" \in last.log

\* what C11 says of the two flags and the page between two script runs
PageMatchesFlags ==
    /\ session_state.page \in {"main", "edit_profile"} =>
           session_state.authenticated /\ session_state.username \in Usernames
    /\ session_state.page = "admin_panel" => session_state.admin_authenticated
    /\ ~(session_state.authenticated /\ session_state.admin_authenticated)

\* session_state.username becomes a name only in a run whose Login button
\* had authenticate_user accept that name
UsernameFromLogin ==
    session_state'.username # session_state.username =>
        \/ session_state'.username = None
        \/ /\ last'.op = "login_button"
           /\ last'.username = session_state'.username
           /\ "call authenticate_user" \in last'.log
           /\ "Welcome" \in last'.log

\* C11 (Spec): from the initial session, at the start of every script run,
\* the page is main or edit_profile only if authenticated is True and
\* username is the name that passed authenticate_user, the page is
\* admin_panel only if admin_authenticated is True, and authenticated and
\* admin_authenticated are never both True.
C11_PageMatchesFlags ==
    []PageMatchesFlags /\ [][UsernameFromLogin]_vars

\* C12 (Spec): delete_user(u) is called only in a run started by a click on
\* Yes, delete user, and only for the user u that was selected when Delete
\* User was clicked, with no click on No, cancel or on a Logout button since:
\* the confirmation applies to no user selected afterwards and to no later
\* admin session.
C12_DeletesTheConfirmedUser ==
    [][/\ "call delete_user" \in last'.log =>
              /\ last'.op = "Yes, delete user"
              /\ pending # None
              /\ last'.username = pending
       /\ \A row \in users \ users' :
              (\A other \in users' : other.username # row.username) =>
                  row.username = pending
      ]_vars

\* the button of each page that leads back to the login page: at once, or,
\* from the edit profile page, by way of the main page
WayToLogin(page) ==
    CASE page = "register"     -> "login_redirect"
      [] page = "admin_login"  -> "back_to_login"
      [] page = "main"         -> "logout_button"
      [] page = "edit_profile" -> "back_to_dashboard"
      [] page = "admin_panel"  -> "admin_logout_button"

\* C13 (Spec): no session state is a dead end: a script run that rendered
\* a page other than login offers the button that leads back to the login
\* page; in particular a run that rendered the admin panel offers Logout,
\* whatever the users table holds and whether or not get_all_users succeeded.
C13_WayBackOffered ==
    (session_state.page = last.page /\ session_state.page # "login") =>
        WayToLogin(session_state.page) \in widgets

=============================================================================
